---- MODULE Spec2Model ----
(***************************************************************************)
(* Task coordination engine of code-conductor.                             *)
(*                                                                         *)
(* Two backends are modelled, each with its own specification:             *)
(*   SpecRemote  the GitHub-issue backend: .conductor/scripts/task-claim.py *)
(*               (claim), .conductor/scripts/cleanup-stale.py (sweep) and   *)
(*               the heartbeat comments agents post while working;          *)
(*               SpecSweep and SpecDryRun start it from a claimed task;     *)
(*   SpecLocal   the state-file backend: the TaskClaimer class generated by *)
(*               conductor_setup/file_generators/script_files.py.           *)
(* The other components have a specification each: SpecMatch (the matcher  *)
(* find_suitable_task), SpecHealth (the health scores of update-status.py  *)
(* and generate-summary.py), SpecUninstall (uninstall.py), SpecClassify    *)
(* (the stale classification of cleanup-stale.py, health-check.py,         *)
(* update-status.py and generate-summary.py on one comment log) and        *)
(* SpecArchive (archive-completed.py).                                     *)
(* Every gh command is one atomic step of the store; the steps of           *)
(* different processes interleave freely.  The clock counts units of        *)
(* thirty minutes, so the default 30 minute timeout is 1 unit.             *)
(***************************************************************************)
EXTENDS Integers, Naturals, Sequences, FiniteSets, TLC

(***************************************************************************)
(* Bounds of the model.                                                    *)
(***************************************************************************)
MaxTime == 2
MaxComments == 2
MaxFails == 1
MaxRuns == 3
MaxLTime == 1
MaxLen == 2
MaxCalls == 2
MaxCount == 4
MaxClaude == 6
MaxHead == 2
MaxNoise == 10
MaxIssues == 2

(***************************************************************************)
(* Program constants.                                                      *)
(***************************************************************************)
Timeout == 1
CommentWindow == 10
TickSeconds == 1800
heartbeat_timeout == 1200
status_timeout == 1800
summary_timeout == 1800
default_max_age == 30
extra_days_back == 30

Tasks == {1, 2}
Agents == {"a1", "a2"}
LoginOrder == <<"u1", "u2">>
Logins == {LoginOrder[i] : i \in DOMAIN LoginOrder}
Roles == {"dev", "security"}
NoTask == 0
NoAgent == 0

Max(a, b) == IF a >= b THEN a ELSE b

RECURSIVE SeqOfSet(_)
SeqOfSet(S) ==
    IF S = {} THEN <<>>
    ELSE LET m == CHOOSE x \in S : \A y \in S : x <= y
         IN <<m>> \o SeqOfSet(S \ {m})

(***************************************************************************)
(* The issues of the tracker.  title and body are modelled by the set of   *)
(* keywords that occur in their lower-cased text as substrings; labels are *)
(* the issue's labels in order, split at the reserved prefix.              *)
(***************************************************************************)
Issues ==
    [t \in Tasks |->
        IF t = 1
        THEN [number |-> 1, title |-> {}, body |-> {},
              labels |-> << <<"conductor", "task">>, <<"priority", "high">>,
                            <<"effort", "small">> >>]
        ELSE [number |-> t, title |-> {}, body |-> {},
              labels |-> << <<"conductor", "task">>, <<"skill", "security">>,
                            <<"priority", "critical">>, <<"effort", "large">> >>]]

RECURSIVE ExtractLabels(_, _)
ExtractLabels(task, labels) ==
    IF labels = <<>> THEN task
    ELSE LET l == Head(labels)
             t2 == IF l[1] = "skill"
                   THEN [task EXCEPT !.required_skills = Append(@, l[2])]
                   ELSE IF l[1] = "effort"
                   THEN [task EXCEPT !.estimated_effort = l[2]]
                   ELSE IF l[1] = "priority"
                   THEN [task EXCEPT !.priority = l[2]]
                   ELSE task
         IN ExtractLabels(t2, Tail(labels))

IssueToTask(issue) ==
    ExtractLabels([id |-> issue.number, title |-> issue.title,
                   description |-> issue.body, required_skills |-> <<>>,
                   estimated_effort |-> "medium", priority |-> "medium"],
                  issue.labels)

HasConductorLabel(issue) ==
    \E i \in DOMAIN issue.labels : issue.labels[i] = <<"conductor", "task">>

(***************************************************************************)
(* find_suitable_task: additive scoring, then a stable sort by score,      *)
(* highest first.                                                          *)
(***************************************************************************)
role_affinities ==
    [r \in {"frontend", "backend", "devops", "security", "ml-engineer",
            "data", "mobile", "ui-designer"} |->
        CASE r = "frontend" -> <<"ui-designer", "ui", "react", "vue", "angular", "css">>
          [] r = "backend" -> <<"api", "database", "server", "devops">>
          [] r = "devops" -> <<"infrastructure", "ci-cd", "deployment", "monitoring">>
          [] r = "security" -> <<"auth", "authentication", "vulnerability", "audit">>
          [] r = "ml-engineer" -> <<"ml", "ai", "data-science", "model", "training">>
          [] r = "data" -> <<"etl", "pipeline", "analytics", "database">>
          [] r = "mobile" -> <<"ios", "android", "react-native", "flutter">>
          [] r = "ui-designer" -> <<"design", "ux", "frontend", "css", "accessibility">>]

priority_scores(p) ==
    CASE p = "critical" -> 30 [] p = "high" -> 20 [] p = "medium" -> 10
      [] p = "low" -> 5 [] OTHER -> 10

effort_scores(e) ==
    CASE e = "small" -> 15 [] e = "medium" -> 10 [] e = "large" -> 5
      [] OTHER -> 10

Range(s) == {s[i] : i \in DOMAIN s}

RECURSIVE AffinityScore(_, _)
AffinityScore(task, affs) ==
    IF affs = <<>> THEN 0
    ELSE (IF Head(affs) \in Range(task.required_skills) THEN 30 ELSE 0)
         + (IF Head(affs) \in task.title \/ Head(affs) \in task.description
            THEN 20 ELSE 0)
         + AffinityScore(task, Tail(affs))

\* The score without the bonus for a required skill that is the role.
MutScoreNoSkillBonus(task, role) ==
    (IF task.required_skills = <<>>
     THEN (IF role = "dev" THEN 50 ELSE 10) ELSE 0)
    + (IF role \in DOMAIN role_affinities
       THEN AffinityScore(task, role_affinities[role]) ELSE 0)
    + priority_scores(task.priority)
    + effort_scores(task.estimated_effort)

Score(task, role) ==
    (IF role \in Range(task.required_skills) THEN 100 ELSE 0)
    + (IF task.required_skills = <<>>
       THEN (IF role = "dev" THEN 50 ELSE 10) ELSE 0)
    + (IF role \in DOMAIN role_affinities
       THEN AffinityScore(task, role_affinities[role]) ELSE 0)
    + (IF "init" \in task.title \/ "initialization" \in task.title
          \/ "discovery" \in task.title THEN 80 ELSE 0)
    + priority_scores(task.priority)
    + effort_scores(task.estimated_effort)

\* The first task of the list among those with the highest positive score;
\* NoTask when the list has no task with a positive score.
find_suitable_task(tasks, role) ==
    LET cand == {i \in DOMAIN tasks : Score(tasks[i], role) > 0}
    IN IF cand = {} THEN NoTask
       ELSE LET best == CHOOSE i \in cand :
                          \A j \in cand :
                             \/ Score(tasks[i], role) > Score(tasks[j], role)
                             \/ (Score(tasks[i], role) = Score(tasks[j], role) /\ i <= j)
            IN tasks[best].id


(***************************************************************************)
(* State of the remote backend.                                            *)
(***************************************************************************)
VARIABLES
    clock,       \* the wall clock, in units of 30 minutes
    issueOpen,   \* issueOpen[t]: the issue is OPEN
    assignees,   \* assignees[t]: the logins the issue is assigned to
    inProgress,  \* inProgress[t]: the issue has the conductor:in-progress label
    comments,    \* comments[t]: the issue's comment log, oldest first
    login,       \* login[a]: the GitHub identity "@me" of agent process a
    pc,          \* pc[a]: position of a's claim command
    target,      \* target[a]: target_task of main
    agentId,     \* agentId[a]: agent_id generated by claim_task
    result,      \* result[a]: the result object printed, [status, message]
    fails,       \* number of gh commands that have failed so far
    held,        \* held[a]: the task a was told it claimed and that no sweep
                 \* has unassigned from a's login since (its active claim)
    spc,         \* position of the sweep command
    squeue,      \* assigned_issues still to visit, as returned by the listing
    sRemain,     \* assignees of the current issue still to remove
    sLast,       \* last_activity of the current issue (-1: None)
    sAgent,      \* agent_id of the current issue (NoAgent: None)
    cleaned,     \* cleaned_agents
    sStartStale, \* tasks that were claimed and stale when the run started
    sDisturbed,  \* tasks an agent assigned or commented on during the run
    sFailed,     \* a gh command of the run failed
    dry_run      \* args.dry_run of the sweep command (--dry-run was given)

rvars == <<clock, issueOpen, assignees, inProgress, comments, login, pc,
           target, agentId, result, fails, held, spc, squeue, sRemain,
           sLast, sAgent, cleaned, sStartStale, sDisturbed, sFailed, dry_run>>

agentVars == <<pc, target, agentId, result>>
sweepVars == <<spc, squeue, sRemain, sLast, sAgent, cleaned, sStartStale, sFailed>>

NoResult == [status |-> "none", message |-> "none"]
None == -1

(***************************************************************************)
(* State of the local backend: the state file .conductor/state.json, its   *)
(* advisory lock, and the processes running TaskClaimer.claim_task.        *)
(***************************************************************************)
VARIABLES
    fileStatus,       \* "valid", "invalid" (not JSON), "not_object" (JSON, but
                      \* not an object) or "missing"
    available_tasks,  \* state["available_tasks"] in the file
    active_work,      \* state["active_work"] in the file: agent_id -> entry
    active_agents,    \* state["system_status"]["active_agents"] in the file
    flock,            \* the process holding the exclusive lock, or "none"
    lpc,              \* lpc[p]: position of p in claim_task
    lrole,            \* lrole[p]: self.role
    lstate,           \* lstate[p]: the state p loaded from the file
    lresult,          \* lresult[p]: what claim_task returned, or the exception
                      \* that ended it (status "none")
    lclock,           \* the wall clock in seconds
    lruns             \* number of claim commands started so far

lvars == <<fileStatus, available_tasks, active_work, active_agents, flock, lpc,
           lrole, lstate, lresult, lclock, lruns>>


Procs == {"p1", "p2"}
Files == {"f1", "f2"}
LocalTaskIds == {1, 2, 3}
EmptyWork == [k \in {} |-> 0]
NoState == [available_tasks |-> <<>>, active_work |-> EmptyWork, active_agents |-> 0]

\* The backend that a specification does not exercise stays as constructed.
LocalOff ==
    /\ fileStatus = "missing"
    /\ available_tasks = <<>>
    /\ active_work = EmptyWork
    /\ active_agents = 0
    /\ flock = "none"
    /\ lpc = [p \in Procs |-> "idle"]
    /\ lrole = [p \in Procs |-> "dev"]
    /\ lstate = [p \in Procs |-> NoState]
    /\ lresult = [p \in Procs |-> NoResult]
    /\ lclock = 0
    /\ lruns = 0

RemoteOff ==
    /\ clock = 0
    /\ issueOpen = [t \in Tasks |-> FALSE]
    /\ assignees = [t \in Tasks |-> {}]
    /\ inProgress = [t \in Tasks |-> FALSE]
    /\ comments = [t \in Tasks |-> <<>>]
    /\ login = [a \in Agents |-> "u1"]
    /\ pc = [a \in Agents |-> "off"]
    /\ target = [a \in Agents |-> NoTask]
    /\ agentId = [a \in Agents |-> NoAgent]
    /\ result = [a \in Agents |-> NoResult]
    /\ fails = 0
    /\ held = [a \in Agents |-> NoTask]
    /\ spc = "off"
    /\ squeue = <<>>
    /\ sRemain = <<>>
    /\ sLast = None
    /\ sAgent = NoAgent
    /\ cleaned = <<>>
    /\ sStartStale = {}
    /\ sDisturbed = {}
    /\ sFailed = FALSE
    /\ dry_run = FALSE

(***************************************************************************)
(* State of the other components, one record each.                         *)
(***************************************************************************)
VARIABLES
    matcher,     \* the runs of find_suitable_task on one task list:
                 \*   tasks, role  the arguments of find_suitable_task
                 \*   env          the process environment between calls
                 \*   runs         runs[i]: scores, ranked order and result
                 \*                of the i-th call
    health,      \* the health computations:
                 \*   available, active, stale, completions  the counts both
                 \*                scripts derive from the issues
                 \*   status       update-status.py: health score in 1/100
                 \*   summary      generate-summary.py: health_score in 1/100
    uninstaller, \* the ConductorUninstaller and its project directory:
                 \*   paths        the paths that exist under project_root
                 \*   claude       content of CLAUDE.md, a sequence of tokens
                 \*   start        ghost: paths and claude at the start
                 \*   items        self.items_to_remove
                 \*   dry_run      self.dry_run
                 \*   pc           position of the uninstaller
    classifier,  \* the stale classification of one assigned task:
                 \*   log          the comments of the issue, oldest first
                 \*   now          datetime.utcnow() of the scripts
                 \*   sweep        verdict of cleanup-stale.py
                 \*   check        verdict of health-check.py
                 \*   status       verdict of update-status.py
                 \*   summary      verdict of generate-summary.py
    archiver     \* archive-completed.py and the issues it works on:
                 \*   issues       state, age in days since it was closed
                 \*                and conductor:archived label of each issue
                 \*   start        ghost: issues at the start of the run
                 \*   max_age      --max-age
                 \*   pc           position of the script

NotComputed == -1

MatchOff == matcher = [tasks |-> <<>>, role |-> "dev", env |-> 0, runs |-> <<>>]

HealthOff ==
    health = [available |-> 0, active |-> 0, stale |-> 0, completions |-> 0,
              status |-> NotComputed, summary |-> NotComputed]

UninstallOff ==
    uninstaller = [paths |-> {}, claude |-> <<>>,
                   start |-> [paths |-> {}, claude |-> <<>>],
                   items |-> <<>>, dry_run |-> FALSE, pc |-> "off"]

NoVerdict == "none"

ClassifierOff ==
    classifier = [log |-> <<>>, now |-> 0, sweep |-> NoVerdict,
                  check |-> NoVerdict, status |-> NoVerdict,
                  summary |-> NoVerdict]

ArchiverOff ==
    archiver = [issues |-> <<>>, start |-> <<>>, max_age |-> 0, pc |-> "off"]

toolVars == <<matcher, health, uninstaller, classifier, archiver>>

vars == <<rvars, lvars, toolVars>>

\* What the steps of one component leave alone: the other components (and,
\* for the remote backend, the command line of the sweep).
remoteFrame == <<dry_run, lvars, toolVars>>
localFrame == <<rvars, toolVars>>
matchFrame == <<rvars, lvars, health, uninstaller, classifier, archiver>>
healthFrame == <<rvars, lvars, matcher, uninstaller, classifier, archiver>>
uninstallFrame == <<rvars, lvars, matcher, health, classifier, archiver>>
classifyFrame == <<rvars, lvars, matcher, health, uninstaller, archiver>>
archiveFrame == <<rvars, lvars, matcher, health, uninstaller, classifier>>

ToolsOff ==
    MatchOff /\ HealthOff /\ UninstallOff /\ ClassifierOff /\ ArchiverOff


\* Markers check_issue_staleness looks for in a comment body.
IsMarker(c) == c.kind \in {"claim", "heartbeat", "progress"}

\* gh issue list: open issues with the conductor:task label, in the
\* tracker's order (newest first).
RECURSIVE Reverse(_)
Reverse(s) == IF s = <<>> THEN <<>> ELSE Append(Reverse(Tail(s)), Head(s))

ListIssues(S) ==
    Reverse(SeqOfSet({t \in S : issueOpen[t] /\ HasConductorLabel(Issues[t])}))

Unassigned(t) == assignees[t] = {}
Assigned(t) == assignees[t] # {}

get_available_tasks ==
    LET l == ListIssues({t \in Tasks : Unassigned(t)})
    IN [i \in DOMAIN l |-> IssueToTask(Issues[l[i]])]

get_assigned_issues ==
    LET l == ListIssues({t \in Tasks : Assigned(t)})
    IN [i \in DOMAIN l |-> [number |-> l[i], assignees |-> assignees[l[i]]]]

\* One gh command may fail (non-zero exit) while the budget lasts.
MayFail == fails < MaxFails

ErrorResult(m) == [status |-> "ERROR", message |-> m]

(***************************************************************************)
(* task-claim.py: main and claim_task.                                      *)
(***************************************************************************)
InitRemote ==
    /\ LocalOff
    /\ ToolsOff
    /\ dry_run = FALSE
    /\ clock = 0
    /\ issueOpen \in [Tasks -> BOOLEAN]
    /\ issueOpen[1]
    /\ assignees = [t \in Tasks |-> {}]
    /\ inProgress = [t \in Tasks |-> FALSE]
    /\ comments = [t \in Tasks |-> <<>>]
    /\ login \in [Agents -> Logins]
    /\ login["a1"] = "u1"
    /\ pc = [a \in Agents |-> "idle"]
    /\ target = [a \in Agents |-> NoTask]
    /\ agentId = [a \in Agents |-> NoAgent]
    /\ result = [a \in Agents |-> NoResult]
    /\ fails = 0
    /\ held = [a \in Agents |-> NoTask]
    /\ spc = "idle"
    /\ squeue = <<>>
    /\ sRemain = <<>>
    /\ sLast = None
    /\ sAgent = NoAgent
    /\ cleaned = <<>>
    /\ sStartStale = {}
    /\ sDisturbed = {}
    /\ sFailed = FALSE

\* uuid4: the agent id of a claim attempt is fresh.
FreshId(a) == IF a = "a1" THEN 1 ELSE 2

\* A gh command of the claim command failed: run_gh_command prints an
\* ERROR object and exits 1.
ClaimGhError(a) ==
    /\ MayFail
    /\ fails' = fails + 1
    /\ result' = [result EXCEPT ![a] = ErrorResult("GitHub CLI error")]
    /\ pc' = [pc EXCEPT ![a] = "done"]

\* main without --task-id: list the unassigned tasks and match.
ClaimMatch(a, r) ==
    /\ UNCHANGED remoteFrame
    /\ pc[a] = "idle"
    /\ \/ /\ ClaimGhError(a)
          /\ UNCHANGED <<target, agentId>>
       \/ LET t == find_suitable_task(get_available_tasks, r)
          IN IF t = NoTask
             THEN /\ result' = [result EXCEPT ![a] =
                        [status |-> "IDLE", message |-> "No tasks available"]]
                  /\ pc' = [pc EXCEPT ![a] = "done"]
                  /\ UNCHANGED <<target, agentId, fails>>
             ELSE /\ target' = [target EXCEPT ![a] = t]
                  /\ agentId' = [agentId EXCEPT ![a] = FreshId(a)]
                  /\ pc' = [pc EXCEPT ![a] = "assign"]
                  /\ UNCHANGED <<result, fails>>
    /\ UNCHANGED <<clock, issueOpen, assignees, inProgress, comments, login,
                   held, spc, squeue, sRemain, sLast, sAgent, cleaned,
                   sStartStale, sDisturbed, sFailed>>

\* main with --task-id: view the issue and validate that it is claimable.
ClaimExplicit(a, r, t) ==
    /\ UNCHANGED remoteFrame
    /\ pc[a] = "idle"
    /\ \/ /\ ClaimGhError(a)
          /\ UNCHANGED <<target, agentId>>
       \/ IF ~issueOpen[t]
          THEN /\ result' = [result EXCEPT ![a] = ErrorResult("is not open")]
               /\ pc' = [pc EXCEPT ![a] = "done"]
               /\ UNCHANGED <<target, agentId, fails>>
          ELSE IF assignees[t] # {}
          THEN /\ result' = [result EXCEPT ![a] = ErrorResult("is already assigned")]
               /\ pc' = [pc EXCEPT ![a] = "done"]
               /\ UNCHANGED <<target, agentId, fails>>
          ELSE IF ~HasConductorLabel(Issues[t])
          THEN /\ result' = [result EXCEPT ![a] = ErrorResult("is not a conductor task")]
               /\ pc' = [pc EXCEPT ![a] = "done"]
               /\ UNCHANGED <<target, agentId, fails>>
          ELSE /\ target' = [target EXCEPT ![a] = t]
               /\ agentId' = [agentId EXCEPT ![a] = FreshId(a)]
               /\ pc' = [pc EXCEPT ![a] = "assign"]
               /\ UNCHANGED <<result, fails>>
    /\ UNCHANGED <<clock, issueOpen, assignees, inProgress, comments, login,
                   held, spc, squeue, sRemain, sLast, sAgent, cleaned,
                   sStartStale, sDisturbed, sFailed>>

\* An agent touched task t, which was stale when the sweep run started,
\* before the sweep command has ended.
Disturb(t) ==
    sDisturbed' = IF spc # "idle" /\ t \in sStartStale
                  THEN sDisturbed \cup {t} ELSE sDisturbed

\* claim_task, first write: gh issue edit --add-assignee @me.
ClaimAssign(a) ==
    /\ UNCHANGED remoteFrame
    /\ pc[a] = "assign"
    /\ \/ /\ ClaimGhError(a)
          /\ UNCHANGED <<assignees, sDisturbed>>
       \/ /\ assignees' = [assignees EXCEPT ![target[a]] = @ \cup {login[a]}]
          /\ Disturb(target[a])
          /\ pc' = [pc EXCEPT ![a] = "comment"]
          /\ UNCHANGED <<result, fails>>
    /\ UNCHANGED <<clock, issueOpen, inProgress, comments, login, target,
                   agentId, held, sweepVars>>

ClaimComment(a) ==
    /\ UNCHANGED remoteFrame
    /\ pc[a] = "comment"
    /\ \/ /\ ClaimGhError(a)
          /\ UNCHANGED <<comments, sDisturbed>>
       \/ /\ comments' = [comments EXCEPT ![target[a]] = Append(@,
                 [kind |-> "claim", time |-> clock, agent |-> agentId[a],
                  status |-> "claimed"])]
          /\ Disturb(target[a])
          /\ pc' = [pc EXCEPT ![a] = "label"]
          /\ UNCHANGED <<result, fails>>
    /\ UNCHANGED <<clock, issueOpen, assignees, inProgress, login, target,
                   agentId, held, sweepVars>>

\* claim_task, third write, and main's report of the claim.
ClaimLabel(a) ==
    /\ UNCHANGED remoteFrame
    /\ pc[a] = "label"
    /\ \/ /\ ClaimGhError(a)
          /\ UNCHANGED <<inProgress, held, sDisturbed>>
       \/ /\ inProgress' = [inProgress EXCEPT ![target[a]] = TRUE]
          /\ Disturb(target[a])
          /\ result' = [result EXCEPT ![a] =
                 [status |-> "claimed", message |-> "claimed"]]
          /\ held' = [held EXCEPT ![a] = target[a]]
          /\ pc' = [pc EXCEPT ![a] = "done"]
          /\ UNCHANGED fails
    /\ UNCHANGED <<clock, issueOpen, assignees, comments, login, target,
                   agentId, sweepVars>>

\* The agent working on its task posts a heartbeat comment: a comment with
\* the Heartbeat marker and the agent's fenced metadata block.
Heartbeat(a) ==
    /\ UNCHANGED remoteFrame
    /\ pc[a] = "done"
    /\ result[a].status = "claimed"
    /\ Len(comments[target[a]]) < MaxComments
    /\ comments' = [comments EXCEPT ![target[a]] = Append(@,
           [kind |-> "heartbeat", time |-> clock, agent |-> agentId[a],
            status |-> "in_progress"])]
    /\ Disturb(target[a])
    /\ UNCHANGED <<clock, issueOpen, assignees, inProgress, login, agentVars,
                   fails, held, sweepVars>>

Tick ==
    /\ UNCHANGED remoteFrame
    /\ clock < MaxTime
    /\ clock' = clock + 1
    /\ UNCHANGED <<issueOpen, assignees, inProgress, comments, login, agentVars,
                   fails, held, sweepVars, sDisturbed>>


(***************************************************************************)
(* cleanup-stale.py: StaleCleaner.                                          *)
(***************************************************************************)
\* The first n elements of a sequence (jq .comments[:n]).
MutFirstN(s, n) == IF Len(s) <= n THEN s ELSE SubSeq(s, 1, n)

\* The last n elements of a sequence (jq .comments[-n:]).
LastN(s, n) == IF Len(s) <= n THEN s ELSE SubSeq(s, Len(s) - n + 1, Len(s))

\* The loop of check_issue_staleness over the comments, newest first:
\* acc = [latest, agent] is <<latest_activity, agent_info>>.
RECURSIVE ScanComments(_, _)
ScanComments(cs, acc) ==
    IF cs = <<>> THEN acc
    ELSE LET c == Head(cs)
             acc2 == IF IsMarker(c) /\ (acc.latest = None \/ c.time > acc.latest)
                     THEN [latest |-> c.time,
                           agent |-> IF c.agent # NoAgent THEN c.agent ELSE acc.agent]
                     ELSE acc
         IN ScanComments(Tail(cs), acc2)

\* is_stale = (current_time - latest_activity) > self.timeout
MutStaleTooLate(now, latest) == (now - latest) > Timeout + 1

IsStale(now, latest) == (now - latest) > Timeout

\* check_issue_staleness on a comment log read at time now:
\* [stale, last, agent] is <<is_stale, latest_activity, agent_info>>.
check_issue_staleness(cs, now) ==
    LET window == Reverse(LastN(cs, CommentWindow))
        acc == ScanComments(window, [latest |-> None, agent |-> NoAgent])
    IN IF window = <<>> THEN [stale |-> TRUE, last |-> None, agent |-> NoAgent]
       ELSE IF acc.latest # None
       THEN [stale |-> IsStale(now, acc.latest), last |-> acc.latest,
             agent |-> acc.agent]
       ELSE [stale |-> TRUE, last |-> None, agent |-> NoAgent]

\* The time of the most recent activity marker of the whole log (None: none).
RECURSIVE LastActivity(_)
LastActivity(cs) ==
    IF cs = <<>> THEN None
    ELSE LET c == cs[Len(cs)]
             rest == LastActivity(SubSeq(cs, 1, Len(cs) - 1))
         IN IF IsMarker(c) THEN Max(c.time, rest) ELSE rest

\* The claim on t has had no activity within the timeout.
ActuallyStale(t) ==
    LastActivity(comments[t]) = None \/ clock - LastActivity(comments[t]) > Timeout

\* The logins of an issue's assignees field, as a list.
AssigneeList(S) == SelectSeq(LoginOrder, LAMBDA u : u \in S)

\* A gh command of the sweep failed: run_gh_command prints the error and
\* returns the empty string.
SweepGhError ==
    /\ MayFail
    /\ fails' = fails + 1
    /\ sFailed' = TRUE

\* The sweep moves on to the next issue of assigned_issues.
SweepNext(rest) ==
    /\ squeue' = rest
    /\ spc' = IF rest = <<>> THEN "done" ELSE "check"
    /\ sRemain' = <<>>
    /\ sLast' = None
    /\ sAgent' = NoAgent

\* clean_stale_work: list the assigned issues.
SweepList ==
    /\ UNCHANGED remoteFrame
    /\ spc = "idle"
    /\ sStartStale' = {t \in Tasks : issueOpen[t] /\ Assigned(t) /\ ActuallyStale(t)}
    /\ UNCHANGED <<sDisturbed, cleaned>>
    /\ \/ /\ SweepGhError
          /\ SweepNext(<<>>)
       \/ /\ SweepNext(get_assigned_issues)
          /\ sFailed' = FALSE
          /\ UNCHANGED fails
    /\ UNCHANGED <<clock, issueOpen, assignees, inProgress, comments, login,
                   agentVars, held>>

\* clean_stale_issue: read the comments and classify the issue.
SweepCheck ==
    /\ UNCHANGED remoteFrame
    /\ spc = "check"
    /\ LET issue == Head(squeue)
           seen == check_issue_staleness(comments[issue.number], clock)
           Stale(r) ==
               /\ sLast' = r.last
               /\ sAgent' = r.agent
               /\ sRemain' = AssigneeList(issue.assignees)
               /\ spc' = IF issue.assignees = {} THEN "unlabel" ELSE "unassign"
               /\ UNCHANGED squeue
       IN \/ /\ SweepGhError
             /\ Stale([stale |-> TRUE, last |-> None, agent |-> NoAgent])
          \/ /\ seen.stale
             /\ Stale(seen)
             /\ UNCHANGED <<fails, sFailed>>
          \/ /\ ~seen.stale
             /\ SweepNext(Tail(squeue))
             /\ UNCHANGED <<fails, sFailed>>
    /\ UNCHANGED <<clock, issueOpen, assignees, inProgress, comments, login,
                   agentVars, held, cleaned, sStartStale, sDisturbed>>

\* clean_stale_issue: gh issue edit --remove-assignee, one login per command.
SweepUnassign ==
    /\ UNCHANGED remoteFrame
    /\ spc = "unassign"
    /\ LET t == Head(squeue).number
           u == Head(sRemain)
       IN \/ /\ SweepGhError
             /\ UNCHANGED <<assignees, held>>
          \/ /\ assignees' = [assignees EXCEPT ![t] = @ \ {u}]
             /\ held' = [a \in Agents |->
                           IF held[a] = t /\ login[a] = u THEN NoTask ELSE held[a]]
             /\ UNCHANGED <<fails, sFailed>>
    /\ sRemain' = Tail(sRemain)
    /\ spc' = IF Tail(sRemain) = <<>> THEN "unlabel" ELSE "unassign"
    /\ UNCHANGED <<clock, issueOpen, inProgress, comments, login, agentVars,
                   squeue, sLast, sAgent, cleaned, sStartStale, sDisturbed>>

\* clean_stale_issue: gh issue edit --remove-label conductor:in-progress.
SweepUnlabel ==
    /\ UNCHANGED remoteFrame
    /\ spc = "unlabel"
    /\ \/ /\ SweepGhError
          /\ UNCHANGED inProgress
       \/ /\ inProgress' = [inProgress EXCEPT ![Head(squeue).number] = FALSE]
          /\ UNCHANGED <<fails, sFailed>>
    /\ spc' = "notice"
    /\ UNCHANGED <<clock, issueOpen, assignees, comments, login, agentVars,
                   held, squeue, sRemain, sLast, sAgent, cleaned, sStartStale,
                   sDisturbed>>

\* clean_stale_issue: post the release notice and record the cleaned agent.
SweepNotice ==
    /\ UNCHANGED remoteFrame
    /\ spc = "notice"
    /\ LET t == Head(squeue).number
       IN /\ \/ /\ SweepGhError
                /\ UNCHANGED comments
             \/ /\ comments' = [comments EXCEPT ![t] = Append(@,
                       [kind |-> "released", time |-> clock, agent |-> sAgent,
                        status |-> "released"])]
                /\ UNCHANGED <<fails, sFailed>>
          /\ cleaned' = Append(cleaned,
                 [issue_number |-> t, agent_id |-> sAgent, last_activity |-> sLast])
    /\ SweepNext(Tail(squeue))
    /\ UNCHANGED <<clock, issueOpen, assignees, inProgress, login, agentVars,
                   held, sStartStale, sDisturbed>>

\* The sweep command has ended; the next scheduled run may start.
SweepEnd ==
    /\ UNCHANGED remoteFrame
    /\ spc = "done"
    /\ spc' = "idle"
    /\ cleaned' = <<>>
    /\ sStartStale' = {}
    /\ sDisturbed' = {}
    /\ sFailed' = FALSE
    /\ UNCHANGED <<clock, issueOpen, assignees, inProgress, comments, login,
                   agentVars, fails, held, squeue, sRemain, sLast, sAgent>>

NextRemote ==
    \/ \E a \in Agents, r \in Roles : ClaimMatch(a, r)
    \/ \E a \in Agents, r \in Roles, t \in Tasks : ClaimExplicit(a, r, t)
    \/ \E a \in Agents : ClaimAssign(a)
    \/ \E a \in Agents : ClaimComment(a)
    \/ \E a \in Agents : ClaimLabel(a)
    \/ \E a \in Agents : Heartbeat(a)
    \/ Tick
    \/ SweepList
    \/ SweepCheck
    \/ SweepUnassign
    \/ SweepUnlabel
    \/ SweepNotice
    \/ SweepEnd


\* The sweep against two agents that run under the same GitHub login, of
\* which a2 has already claimed task 2 (by an uninterrupted run of its claim
\* command at time 0) and a1 has not yet started its claim command.
ClaimedBy(a, t) ==
    [kind |-> "claim", time |-> 0, agent |-> FreshId(a), status |-> "claimed"]

InitSweep ==
    /\ LocalOff
    /\ ToolsOff
    /\ dry_run = FALSE
    /\ clock = 0
    /\ issueOpen = [t \in Tasks |-> TRUE]
    /\ login = [a \in Agents |-> "u1"]
    /\ assignees = [t \in Tasks |-> IF t = 2 THEN {login["a2"]} ELSE {}]
    /\ inProgress = [t \in Tasks |-> t = 2]
    /\ comments = [t \in Tasks |-> IF t = 2 THEN <<ClaimedBy("a2", 2)>> ELSE <<>>]
    /\ pc = [a \in Agents |-> IF a = "a1" THEN "idle" ELSE "done"]
    /\ target = [a \in Agents |-> IF a = "a1" THEN NoTask ELSE 2]
    /\ agentId = [a \in Agents |-> IF a = "a1" THEN NoAgent ELSE FreshId(a)]
    /\ result = [a \in Agents |->
                   IF a = "a1" THEN NoResult
                   ELSE [status |-> "claimed", message |-> "claimed"]]
    /\ fails = 0
    /\ held = [a \in Agents |-> IF a = "a1" THEN NoTask ELSE 2]
    /\ spc = "idle"
    /\ squeue = <<>>
    /\ sRemain = <<>>
    /\ sLast = None
    /\ sAgent = NoAgent
    /\ cleaned = <<>>
    /\ sStartStale = {}
    /\ sDisturbed = {}
    /\ sFailed = FALSE

\* The same situation, with the sweep command run as cleanup-stale.py --dry-run.
InitDryRun ==
    /\ LocalOff
    /\ ToolsOff
    /\ dry_run = TRUE
    /\ clock = 0
    /\ issueOpen = [t \in Tasks |-> TRUE]
    /\ login = [a \in Agents |-> "u1"]
    /\ assignees = [t \in Tasks |-> IF t = 2 THEN {login["a2"]} ELSE {}]
    /\ inProgress = [t \in Tasks |-> t = 2]
    /\ comments = [t \in Tasks |-> IF t = 2 THEN <<ClaimedBy("a2", 2)>> ELSE <<>>]
    /\ pc = [a \in Agents |-> IF a = "a1" THEN "idle" ELSE "done"]
    /\ target = [a \in Agents |-> IF a = "a1" THEN NoTask ELSE 2]
    /\ agentId = [a \in Agents |-> IF a = "a1" THEN NoAgent ELSE FreshId(a)]
    /\ result = [a \in Agents |->
                   IF a = "a1" THEN NoResult
                   ELSE [status |-> "claimed", message |-> "claimed"]]
    /\ fails = 0
    /\ held = [a \in Agents |-> IF a = "a1" THEN NoTask ELSE 2]
    /\ spc = "idle"
    /\ squeue = <<>>
    /\ sRemain = <<>>
    /\ sLast = None
    /\ sAgent = NoAgent
    /\ cleaned = <<>>
    /\ sStartStale = {}
    /\ sDisturbed = {}
    /\ sFailed = FALSE

(***************************************************************************)
(* The local backend: TaskClaimer.                                          *)
(***************************************************************************)
\* required_skills of the tasks of the pool.
LocalSkills(i) == IF i = 2 THEN {"dev"} ELSE {}

InitLocal ==
    /\ RemoteOff
    /\ ToolsOff
    /\ fileStatus \in {"valid", "invalid", "not_object", "missing"}
    /\ \E fl \in [LocalTaskIds -> SUBSET Files] :
          available_tasks =
              [i \in LocalTaskIds |->
                  [id |-> i, required_skills |-> LocalSkills(i), files_locked |-> fl[i]]]
    /\ active_work = EmptyWork
    /\ active_agents = 0
    /\ flock = "none"
    /\ lpc = [p \in Procs |-> "idle"]
    /\ lrole = [p \in Procs |-> "dev"]
    /\ lstate = [p \in Procs |-> NoState]
    /\ lresult = [p \in Procs |-> NoResult]
    /\ lclock = 0
    /\ lruns = 0

\* _has_file_conflicts(task, state)
MutNoConflictCheck(task, state) == FALSE

_has_file_conflicts(task, state) ==
    IF task.files_locked = {} THEN FALSE
    ELSE \E k \in DOMAIN state.active_work :
            task.files_locked \cap state.active_work[k].files_locked # {}

\* The loop of claim_task over available_tasks: the index of the first task
\* the role may take and that has no file conflict, 0 when there is none.
FindLocalTask(state, r) ==
    LET ok == {i \in DOMAIN state.available_tasks :
                 LET task == state.available_tasks[i]
                 IN /\ (task.required_skills = {} \/ r \in task.required_skills)
                    /\ ~_has_file_conflicts(task, state)}
    IN IF ok = {} THEN 0 ELSE CHOOSE i \in ok : \A j \in ok : i <= j

\* list.pop(i)
Pop(s, i) == SubSeq(s, 1, i - 1) \o SubSeq(s, i + 1, Len(s))

\* dict[key] = value
DictSet(d, key, value) ==
    [k \in DOMAIN d \cup {key} |-> IF k = key THEN value ELSE d[k]]

\* agent_id = f"{self.role}_{int(datetime.utcnow().timestamp())}"
LocalAgentId(r, now) == <<r, now>>

\* The state claim_task builds in memory when it has found the task at i.
ClaimedState(state, i, r, now) ==
    LET task == state.available_tasks[i]
        work == DictSet(state.active_work, LocalAgentId(r, now),
                        [task |-> task, status |-> "in_progress",
                         started_at |-> now, heartbeat |-> now,
                         files_locked |-> task.files_locked])
    IN [available_tasks |-> Pop(state.available_tasks, i),
        active_work |-> work,
        active_agents |-> Cardinality(DOMAIN work)]

\* Leaving the with-block closes the file, which drops a lock still held
\* through it.
MutCloseKeepsLock(p) == flock

CloseFile(p) == IF flock = p THEN "none" ELSE flock

\* fcntl.flock(f, LOCK_EX) may be taken when no other process holds the lock.
LockFree(p) == flock = "none"

\* claim_task: the existence check and open().
LStart(p, r) ==
    /\ UNCHANGED localFrame
    /\ lpc[p] = "idle"
    /\ lruns < MaxRuns
    /\ lruns' = lruns + 1
    /\ lrole' = [lrole EXCEPT ![p] = r]
    /\ IF fileStatus = "missing"
       THEN /\ lresult' = [lresult EXCEPT ![p] = ErrorResult("State file not found")]
            /\ lpc' = [lpc EXCEPT ![p] = "done"]
       ELSE /\ lpc' = [lpc EXCEPT ![p] = "opened"]
            /\ UNCHANGED lresult
    /\ UNCHANGED <<fileStatus, available_tasks, active_work, active_agents, flock,
                   lstate, lclock>>

\* fcntl.flock(f, fcntl.LOCK_EX): blocks until the lock is free.
LFlock(p) ==
    /\ UNCHANGED localFrame
    /\ lpc[p] = "opened"
    /\ LockFree(p)
    /\ flock' = p
    /\ lpc' = [lpc EXCEPT ![p] = "locked"]
    /\ UNCHANGED <<fileStatus, available_tasks, active_work, active_agents,
                   lrole, lstate, lresult, lclock, lruns>>

\* An exception that claim_task does not catch ends the process with a
\* traceback: nothing is returned to main.
Uncaught(e) == [status |-> "none", message |-> e]

\* json.load(f); on JSONDecodeError claim_task returns from inside the
\* with-block.  A document that is not an object is loaded, and the
\* state.get of the task loop raises AttributeError out of the with-block.
LLoad(p) ==
    /\ UNCHANGED localFrame
    /\ lpc[p] = "locked"
    /\ IF fileStatus = "invalid"
       THEN /\ lresult' = [lresult EXCEPT ![p] = ErrorResult("Invalid state file")]
            /\ flock' = CloseFile(p)
            /\ lpc' = [lpc EXCEPT ![p] = "done"]
            /\ UNCHANGED lstate
       ELSE IF fileStatus = "not_object"
       THEN /\ lresult' = [lresult EXCEPT ![p] = Uncaught("AttributeError")]
            /\ flock' = CloseFile(p)
            /\ lpc' = [lpc EXCEPT ![p] = "done"]
            /\ UNCHANGED lstate
       ELSE /\ lstate' = [lstate EXCEPT ![p] =
                   [available_tasks |-> available_tasks,
                    active_work |-> active_work,
                    active_agents |-> active_agents]]
            /\ lpc' = [lpc EXCEPT ![p] = "loaded"]
            /\ UNCHANGED <<lresult, flock>>
    /\ UNCHANGED <<fileStatus, available_tasks, active_work, active_agents,
                   lrole, lclock, lruns>>

\* The search for a task and, when one is found, the write-back of the whole
\* document (seek, json.dump, truncate).
LWrite(p) ==
    /\ UNCHANGED localFrame
    /\ lpc[p] = "loaded"
    /\ LET i == FindLocalTask(lstate[p], lrole[p])
       IN IF i # 0
          THEN LET new == ClaimedState(lstate[p], i, lrole[p], lclock)
               IN /\ available_tasks' = new.available_tasks
                  /\ active_work' = new.active_work
                  /\ active_agents' = new.active_agents
                  /\ lresult' = [lresult EXCEPT ![p] =
                        [status |-> "claimed",
                         message |-> "claimed",
                         task_id |-> lstate[p].available_tasks[i].id,
                         agent_id |-> LocalAgentId(lrole[p], lclock)]]
          ELSE /\ lresult' = [lresult EXCEPT ![p] =
                     [status |-> "IDLE", message |-> "No suitable tasks available"]]
               /\ UNCHANGED <<available_tasks, active_work, active_agents>>
    /\ lpc' = [lpc EXCEPT ![p] = "unlock"]
    /\ UNCHANGED <<fileStatus, flock, lrole, lstate, lclock, lruns>>

\* fcntl.flock(f, fcntl.LOCK_UN), then the return.
LUnlock(p) ==
    /\ UNCHANGED localFrame
    /\ lpc[p] = "unlock"
    /\ flock' = "none"
    /\ lpc' = [lpc EXCEPT ![p] = "done"]
    /\ UNCHANGED <<fileStatus, available_tasks, active_work, active_agents,
                   lrole, lstate, lresult, lclock, lruns>>

\* The process ends; another claim command may be started in its place.
LExit(p) ==
    /\ UNCHANGED localFrame
    /\ lpc[p] = "done"
    /\ lpc' = [lpc EXCEPT ![p] = "idle"]
    /\ lrole' = [lrole EXCEPT ![p] = "dev"]
    /\ lstate' = [lstate EXCEPT ![p] = NoState]
    /\ lresult' = [lresult EXCEPT ![p] = NoResult]
    /\ UNCHANGED <<fileStatus, available_tasks, active_work, active_agents, flock,
                   lclock, lruns>>

LTick ==
    /\ UNCHANGED localFrame
    /\ lclock < MaxLTime
    /\ lclock' = lclock + 1
    /\ UNCHANGED <<fileStatus, available_tasks, active_work, active_agents, flock,
                   lpc, lrole, lstate, lresult, lruns>>

\* main of the generated task-claim.py: what it prints on standard output
\* and the exit code of the process, from what claim_task returned.
Stdout(res) == IF res.status = "none" THEN <<>> ELSE <<res>>

ExitCode(res) ==
    IF res.status = "none" THEN 1
    ELSE IF res.status \in {"claimed", "IDLE"} THEN 0 ELSE 1

NextLocal ==
    \/ \E p \in Procs, r \in Roles : LStart(p, r)
    \/ \E p \in Procs : LFlock(p)
    \/ \E p \in Procs : LLoad(p)
    \/ \E p \in Procs : LWrite(p)
    \/ \E p \in Procs : LUnlock(p)
    \/ \E p \in Procs : LExit(p)
    \/ LTick

(***************************************************************************)
(* Runs of the matcher: find_suitable_task is called several times on the  *)
(* same task list and role, while the environment of the process changes.  *)
(***************************************************************************)
\* Task A and Task B of the skill-match scenario, and two more tasks: one
\* with a bootstrap keyword in its title, one that needs a skill the
\* security role has an affinity for.
TaskA == IssueToTask(Issues[1])
TaskB == IssueToTask(Issues[2])

BootstrapTask ==
    [id |-> 3, title |-> {"init"}, description |-> {}, required_skills |-> <<>>,
     estimated_effort |-> "medium", priority |-> "medium"]

AuthTask ==
    [id |-> 4, title |-> {}, description |-> {"auth"},
     required_skills |-> <<"auth">>, estimated_effort |-> "small",
     priority |-> "low"]

\* A general task whose priority and effort bonus add up to those of Task A.
TaskC ==
    [id |-> 5, title |-> {}, description |-> {}, required_skills |-> <<>>,
     estimated_effort |-> "large", priority |-> "critical"]

TaskPool == {TaskA, TaskB, BootstrapTask, AuthTask, TaskC}
MatchRoles == {"dev", "security", "frontend"}

\* The task lists of at most MaxLen tasks, each task at most once.
TaskLists ==
    {l \in UNION {[1..n -> TaskPool] : n \in 0..MaxLen} :
        \A i \in DOMAIN l : \A j \in DOMAIN l : l[i] = l[j] => i = j}

\* scored_tasks before the sort: <<score, index of the task>> for the tasks
\* with a positive score, in list order.
RECURSIVE scored_tasks(_, _, _)
scored_tasks(tasks, role, i) ==
    IF i > Len(tasks) THEN <<>>
    ELSE (IF Score(tasks[i], role) > 0
          THEN << <<Score(tasks[i], role), i>> >> ELSE <<>>)
         \o scored_tasks(tasks, role, i + 1)

\* A sort by score, highest first, that reverses the order of elements of
\* equal score.
RECURSIVE MutSortReversesTies(_)
MutSortReversesTies(st) ==
    IF st = <<>> THEN <<>>
    ELSE LET k == CHOOSE i \in DOMAIN st :
                     /\ \A j \in DOMAIN st : st[i][1] >= st[j][1]
                     /\ \A j \in (i + 1)..Len(st) : st[j][1] # st[i][1]
         IN <<st[k]>> \o MutSortReversesTies(Pop(st, k))

\* list.sort(key=lambda x: x[0], reverse=True): a stable sort, elements of
\* equal score keep their order.
RECURSIVE SortByScore(_)
SortByScore(st) ==
    IF st = <<>> THEN <<>>
    ELSE LET k == CHOOSE i \in DOMAIN st :
                     /\ \A j \in DOMAIN st : st[i][1] >= st[j][1]
                     /\ \A j \in 1..(i - 1) : st[j][1] # st[i][1]
         IN <<st[k]>> \o SortByScore(Pop(st, k))

\* One call of find_suitable_task: the scores, the ranked order and the
\* task returned.  The function reads its two arguments only.
MutRunDependsOnEnv(tasks, role) ==
    LET ranked == SortByScore(scored_tasks(tasks, role, 1))
        order == IF matcher.env = 0 THEN ranked ELSE Reverse(ranked)
    IN [scores |-> [i \in DOMAIN tasks |-> Score(tasks[i], role)],
        ranked |-> [i \in DOMAIN order |-> tasks[order[i][2]].id],
        result |-> IF order = <<>> THEN NoTask ELSE tasks[order[1][2]].id]

RunMatcher(tasks, role) ==
    LET ranked == SortByScore(scored_tasks(tasks, role, 1))
    IN [scores |-> [i \in DOMAIN tasks |-> Score(tasks[i], role)],
        ranked |-> [i \in DOMAIN ranked |-> tasks[ranked[i][2]].id],
        result |-> IF ranked = <<>> THEN NoTask ELSE tasks[ranked[1][2]].id]

InitMatch ==
    /\ RemoteOff
    /\ LocalOff
    /\ HealthOff
    /\ UninstallOff
    /\ ClassifierOff
    /\ ArchiverOff
    /\ matcher \in [tasks : TaskLists, role : MatchRoles, env : {0}, runs : {<<>>}]

MatchCall ==
    /\ UNCHANGED matchFrame
    /\ Len(matcher.runs) < MaxCalls
    /\ matcher' = [matcher EXCEPT
                      !.runs = Append(@, RunMatcher(matcher.tasks, matcher.role))]

\* Time passes and the process environment changes between two calls.
MatchEnvChange ==
    /\ UNCHANGED matchFrame
    /\ matcher' = [matcher EXCEPT !.env = 1 - @]

NextMatch ==
    \/ MatchCall
    \/ MatchEnvChange

(***************************************************************************)
(* The health computations: collect_metrics of update-status.py and        *)
(* calculate_health_score of generate-summary.py.  Scores are in 1/100.    *)
(***************************************************************************)
\* The number of TRUE elements of a sequence of booleans.
RECURSIVE CountTrue(_)
CountTrue(bs) ==
    IF bs = <<>> THEN 0
    ELSE (IF Head(bs) THEN 1 ELSE 0) + CountTrue(Tail(bs))

\* metrics["health"] of collect_metrics: has_available_tasks,
\* has_active_agents, low_stale_ratio, recent_activity.
health_checks(available, active, stale, completions_24h) ==
    << available > 0,
       active > 0,
       IF active > 0 THEN 10 * stale < 3 * active ELSE TRUE,
       completions_24h > 0 \/ active > 0 >>

\* round(sum(health_checks) / len(health_checks), 2)
StatusScore(checks) == (100 * CountTrue(checks)) \div Len(checks)

\* The conditions under which calculate_health_score adds a weight.
SummaryChecks(available, active, stale, completions_24h) ==
    << available > 0,
       active > 0,
       IF active > 0 THEN 5 * stale < active ELSE TRUE,
       completions_24h > 0 >>

MutWeightsTooHeavy == <<40, 30, 20, 20>>

weights == <<30, 30, 20, 20>>

RECURSIVE WeightedSum(_, _)
WeightedSum(checks, ws) ==
    IF checks = <<>> THEN 0
    ELSE (IF Head(checks) THEN Head(ws) ELSE 0) + WeightedSum(Tail(checks), Tail(ws))

calculate_health_score(available, active, stale, completions_24h) ==
    WeightedSum(SummaryChecks(available, active, stale, completions_24h), weights)

InitHealth ==
    /\ RemoteOff
    /\ LocalOff
    /\ MatchOff
    /\ UninstallOff
    /\ ClassifierOff
    /\ ArchiverOff
    /\ health \in [available : 0..MaxCount, active : 0..MaxCount,
                    stale : 0..MaxCount, completions : 0..MaxCount,
                    status : {NotComputed}, summary : {NotComputed}]
    /\ health.stale <= health.active

collect_metrics ==
    /\ UNCHANGED healthFrame
    /\ health.status = NotComputed
    /\ health' = [health EXCEPT !.status =
           StatusScore(health_checks(health.available, health.active,
                                     health.stale, health.completions))]

generate_summary ==
    /\ UNCHANGED healthFrame
    /\ health.summary = NotComputed
    /\ health' = [health EXCEPT !.summary =
           calculate_health_score(health.available, health.active,
                                  health.stale, health.completions)]

NextHealth ==
    \/ collect_metrics
    \/ generate_summary

(***************************************************************************)
(* uninstall.py: ConductorUninstaller.  A path is the sequence of its      *)
(* components below project_root.  The content of CLAUDE.md is a sequence  *)
(* of tokens: "S" and "E" are the CONDUCTOR:START and CONDUCTOR:END        *)
(* markers, "n" is a newline and "x" any other text.                       *)
(***************************************************************************)
conductor_dir == <<".conductor">>
conductor_script == <<"conductor">>
github_dir == <<".github">>
workflows_dir == <<".github", "workflows">>
conductor_workflows == <<"conductor.yml", "conductor-cleanup.yml", "pr-review.yml">>
template_dir == <<".github", "ISSUE_TEMPLATE">>
template_path == <<".github", "ISSUE_TEMPLATE", "conductor-task.yml">>
worktrees_dir == <<"worktrees">>
claude_md == <<"CLAUDE.md">>

\* The directories and files a project directory may hold.
ProjectDirs == {conductor_dir, github_dir, workflows_dir, template_dir, worktrees_dir}

ProjectFiles ==
    {conductor_script, claude_md, template_path,
     Append(workflows_dir, "conductor.yml"),
     Append(workflows_dir, "user-workflow.yml"),
     Append(worktrees_dir, "agent-dev-123")}

IsUnder(path, dir) ==
    /\ Len(path) > Len(dir)
    /\ SubSeq(path, 1, Len(dir)) = dir

\* dir_path.iterdir()
Children(paths, dir) == {q \in paths : IsUnder(q, dir) /\ Len(q) = Len(dir) + 1}

\* A set of paths is a directory tree: the parent of every path is in it.
IsTree(paths) ==
    \A q \in paths :
        Len(q) > 1 => SubSeq(q, 1, Len(q) - 1) \in paths \cap ProjectDirs

ClaudeTokens == {"S", "E", "n", "x"}

\* The contents of CLAUDE.md of at most MaxClaude tokens with at most one
\* marker of each kind.
ClaudeContents ==
    {c \in UNION {[1..n -> ClaudeTokens] : n \in 0..MaxClaude} :
        /\ Cardinality({i \in DOMAIN c : c[i] = "S"}) <= 1
        /\ Cardinality({i \in DOMAIN c : c[i] = "E"}) <= 1}

\* find_conductor_files: the items, in the order they are appended.
find_conductor_files(paths) ==
    (IF conductor_dir \in paths THEN <<conductor_dir>> ELSE <<>>)
    \o (IF conductor_script \in paths THEN <<conductor_script>> ELSE <<>>)
    \o (IF workflows_dir \in paths
        THEN SelectSeq([i \in DOMAIN conductor_workflows |->
                           Append(workflows_dir, conductor_workflows[i])],
                       LAMBDA q : q \in paths)
        ELSE <<>>)
    \o (IF template_path \in paths THEN <<template_path>> ELSE <<>>)
    \o (IF /\ worktrees_dir \in paths
           /\ \E q \in Children(paths, worktrees_dir) :
                 q[Len(q)] \in {"agent-dev-123"}
        THEN <<worktrees_dir>> ELSE <<>>)

\* find_claude_md_section: CLAUDE.md exists and holds both markers.
find_claude_md_section(paths, content) ==
    /\ claude_md \in paths
    /\ \E i \in DOMAIN content : content[i] = "S"
    /\ \E i \in DOMAIN content : content[i] = "E"

\* re.sub(r"<!-- CONDUCTOR:START -->.*?<!-- CONDUCTOR:END -->", "", content,
\* flags=re.DOTALL): every span from a start marker to the next end marker
\* is deleted, from left to right.
RECURSIVE RemoveSections(_)
RemoveSections(c) ==
    LET starts == {i \in DOMAIN c :
                     c[i] = "S" /\ \E j \in DOMAIN c : j > i /\ c[j] = "E"}
    IN IF starts = {} THEN c
       ELSE LET i == CHOOSE k \in starts : \A l \in starts : k <= l
                j == CHOOSE k \in DOMAIN c :
                        /\ k > i /\ c[k] = "E"
                        /\ \A l \in DOMAIN c : (l > i /\ c[l] = "E") => k <= l
            IN SubSeq(c, 1, i - 1) \o RemoveSections(SubSeq(c, j + 1, Len(c)))

\* re.sub(r"\n{3,}", "\n\n", new_content): every run of three or more
\* newlines becomes two newlines.
RECURSIVE CollapseNewlines(_)
CollapseNewlines(c) ==
    IF c = <<>> THEN <<>>
    ELSE IF Len(c) >= 3 /\ c[1] = "n" /\ c[2] = "n" /\ c[3] = "n"
    THEN CollapseNewlines(Tail(c))
    ELSE <<Head(c)>> \o CollapseNewlines(Tail(c))

\* remove_claude_md_section: the new content of CLAUDE.md.
remove_claude_md_section(content) == CollapseNewlines(RemoveSections(content))

\* shutil.rmtree(item) or item.unlink(), for every item of the list.
RemoveAll(paths, items) ==
    {q \in paths : \A i \in DOMAIN items : q # items[i] /\ ~IsUnder(q, items[i])}

\* cleanup_empty_dirs: ISSUE_TEMPLATE, workflows and .github, in this order,
\* each removed when it exists and has no entry.
dirs_to_check == <<template_dir, workflows_dir, github_dir>>

RECURSIVE RemoveEmptyDirs(_, _)
RemoveEmptyDirs(paths, dirs) ==
    IF dirs = <<>> THEN paths
    ELSE LET d == Head(dirs)
             rest == IF d \in paths /\ Children(paths, d) = {}
                     THEN paths \ {d} ELSE paths
         IN RemoveEmptyDirs(rest, Tail(dirs))

\* The project directories conductor is installed in.
InstalledProjects ==
    {ps \in SUBSET (ProjectDirs \cup ProjectFiles) :
        IsTree(ps) /\ conductor_dir \in ps /\ conductor_script \in ps}

InitUninstall ==
    /\ RemoteOff
    /\ LocalOff
    /\ MatchOff
    /\ HealthOff
    /\ ClassifierOff
    /\ ArchiverOff
    /\ \E ps \in InstalledProjects, c \in ClaudeContents, d \in BOOLEAN :
          /\ claude_md \notin ps => c = <<>>
          /\ uninstaller = [paths |-> ps, claude |-> c,
                            start |-> [paths |-> ps, claude |-> c],
                            items |-> <<>>, dry_run |-> d, pc |-> "find"]

\* self.items_to_remove = self.find_conductor_files()
UFind ==
    /\ UNCHANGED uninstallFrame
    /\ uninstaller.pc = "find"
    /\ uninstaller' = [uninstaller EXCEPT
                          !.items = find_conductor_files(uninstaller.paths),
                          !.pc = "remove"]

\* remove_items without its tests of self.dry_run.
MutRemoveIgnoresDryRun ==
    /\ UNCHANGED uninstallFrame
    /\ uninstaller.pc = "remove"
    /\ LET left == RemoveAll(uninstaller.paths, uninstaller.items)
       IN uninstaller' =
             [uninstaller EXCEPT
                 !.paths = left,
                 !.claude = IF find_claude_md_section(left, @)
                            THEN remove_claude_md_section(@) ELSE @,
                 !.pc = "cleanup"]

\* remove_items: the items are removed, then CLAUDE.md is rewritten.  (The
\* git worktrees removed first lie under worktrees/agent-*.)
remove_items ==
    /\ UNCHANGED uninstallFrame
    /\ uninstaller.pc = "remove"
    /\ LET left == RemoveAll(uninstaller.paths, uninstaller.items)
       IN uninstaller' =
             IF uninstaller.dry_run
             THEN [uninstaller EXCEPT !.pc = "cleanup"]
             ELSE [uninstaller EXCEPT
                      !.paths = left,
                      !.claude = IF find_claude_md_section(left, @)
                                 THEN remove_claude_md_section(@) ELSE @,
                      !.pc = "cleanup"]

cleanup_empty_dirs ==
    /\ UNCHANGED uninstallFrame
    /\ uninstaller.pc = "cleanup"
    /\ uninstaller' = [uninstaller EXCEPT
                          !.paths = IF uninstaller.dry_run THEN @
                                    ELSE RemoveEmptyDirs(@, dirs_to_check),
                          !.pc = "done"]

NextUninstall ==
    \/ UFind
    \/ remove_items
    \/ cleanup_empty_dirs

(***************************************************************************)
(* The stale classification of an assigned issue by the four scripts that  *)
(* read its comments: cleanup-stale.py (check_issue_staleness, above),     *)
(* health-check.py, update-status.py and generate-summary.py.  All of them *)
(* read the same comment log at the same time now.                         *)
(***************************************************************************)
\* A comment of the log: a claim or heartbeat comment carries the marker
\* and the agent's fenced metadata block, a progress comment the word
\* Progress, any other comment no marker.
LogComment(k, t) ==
    [kind |-> k, time |-> t,
     agent |-> IF k \in {"claim", "heartbeat"} THEN 1 ELSE NoAgent,
     status |-> IF k = "claim" THEN "claimed"
                ELSE IF k = "heartbeat" THEN "in_progress" ELSE "none"]

CommentKinds == {"claim", "heartbeat", "progress", "other"}

\* createdAt never decreases along the comments of an issue.
TimeOrdered(cs) == \A i, j \in DOMAIN cs : i <= j => cs[i].time <= cs[j].time

\* The comment logs: at most MaxHead comments of any kind, followed by at
\* most MaxNoise comments without marker.
LogHeads ==
    {h \in UNION {[1..n -> {LogComment(k, t) : k \in CommentKinds,
                                              t \in 0..MaxTime}] :
                    n \in 0..MaxHead} : TimeOrdered(h)}

CommentLogs ==
    {l \in {h \o [i \in 1..n |-> LogComment("other", t)] :
               h \in LogHeads, n \in 0..MaxNoise, t \in 0..MaxTime} :
        TimeOrdered(l)}

Verdict(stale) == IF stale THEN "stale" ELSE "live"

\* "Agent Claimed Task" in body or "Heartbeat" in body
IsHeartbeatMarker(c) == c.kind \in {"claim", "heartbeat"}

\* The loop of check_agent_heartbeats over the comments, newest first:
\* acc = [latest, agent] is <<latest_heartbeat, agent_info>>.
RECURSIVE ScanHeartbeats(_, _)
ScanHeartbeats(cs, acc) ==
    IF cs = <<>> THEN acc
    ELSE LET c == Head(cs)
             acc2 == IF IsHeartbeatMarker(c)
                        /\ (acc.latest = None \/ c.time > acc.latest)
                     THEN [latest |-> c.time,
                           agent |-> IF c.agent # NoAgent THEN c.agent
                                     ELSE acc.agent]
                     ELSE acc
         IN ScanHeartbeats(Tail(cs), acc2)

\* health-check.py, check_agent_heartbeats: the issue adds an agent to
\* self.stale_agents.
check_agent_heartbeats(cs, now) ==
    LET window == Reverse(LastN(cs, CommentWindow))
        acc == ScanHeartbeats(window, [latest |-> None, agent |-> NoAgent])
    IN /\ window # <<>>
       /\ acc.agent # NoAgent
       /\ (now - acc.latest) * TickSeconds > heartbeat_timeout

\* update-status.py, collect_metrics: the issue adds one to stale_agents.
\* Only .comments[-1] is read.
StatusStale(cs, now) ==
    /\ cs # <<>>
    /\ IsHeartbeatMarker(cs[Len(cs)])
    /\ (now - cs[Len(cs)].time) * TickSeconds > status_timeout

\* generate-summary.py, get_active_agents: last_heartbeat of the agent of
\* the issue (None: the agent is not in active_agents).  The last 10
\* comments are read oldest first; a later comment overwrites the entry.
RECURSIVE get_active_agents(_, _, _)
get_active_agents(cs, now, last) ==
    IF cs = <<>> THEN last
    ELSE LET c == Head(cs)
             stale_threshold == now - Timeout
         IN get_active_agents(Tail(cs), now,
                IF /\ IsHeartbeatMarker(c)
                   /\ c.time > stale_threshold
                   /\ c.agent # NoAgent
                THEN c.time ELSE last)

\* generate-summary.py, generate_summary: the issue adds one to stale_agents.
SummaryStale(cs, now) ==
    LET last_heartbeat == get_active_agents(LastN(cs, CommentWindow), now, None)
    IN /\ last_heartbeat # None
       /\ (now - last_heartbeat) * TickSeconds > summary_timeout

InitClassify ==
    /\ RemoteOff
    /\ LocalOff
    /\ MatchOff
    /\ HealthOff
    /\ UninstallOff
    /\ ArchiverOff
    /\ \E l \in CommentLogs, now \in 0..MaxTime :
          /\ \A i \in DOMAIN l : l[i].time <= now
          /\ classifier = [log |-> l, now |-> now, sweep |-> NoVerdict,
                           check |-> NoVerdict, status |-> NoVerdict,
                           summary |-> NoVerdict]

\* cleanup-stale.py reads the comments of the issue.
SweepClassify ==
    /\ UNCHANGED classifyFrame
    /\ classifier.sweep = NoVerdict
    /\ classifier' = [classifier EXCEPT !.sweep =
           Verdict(check_issue_staleness(classifier.log, classifier.now).stale)]

\* health-check.py reads the comments of the issue.
CheckClassify ==
    /\ UNCHANGED classifyFrame
    /\ classifier.check = NoVerdict
    /\ classifier' = [classifier EXCEPT !.check =
           Verdict(check_agent_heartbeats(classifier.log, classifier.now))]

\* update-status.py reads the last comment of the issue.
StatusClassify ==
    /\ UNCHANGED classifyFrame
    /\ classifier.status = NoVerdict
    /\ classifier' = [classifier EXCEPT !.status =
           Verdict(StatusStale(classifier.log, classifier.now))]

\* generate-summary.py reads the comments of the issue.
SummaryClassify ==
    /\ UNCHANGED classifyFrame
    /\ classifier.summary = NoVerdict
    /\ classifier' = [classifier EXCEPT !.summary =
           Verdict(SummaryStale(classifier.log, classifier.now))]

NextClassify ==
    \/ SweepClassify
    \/ CheckClassify
    \/ StatusClassify
    \/ SummaryClassify

(***************************************************************************)
(* archive-completed.py: TaskArchiver.  Ages are whole days since the      *)
(* issue was closed.                                                       *)
(***************************************************************************)
\* The module imports json, sys, subprocess, argparse and datetime, and
\* reads os.environ: the name os is not bound.
ImportedModules == {"json", "sys", "subprocess", "argparse", "datetime"}

\* Evaluating os.environ raises NameError.
OsNameError == "os" \notin ImportedModules

\* The values of --max-age.
MaxAges == {1, default_max_age}

\* The ages an issue is given: closed today, just inside and just outside
\* the retention window, and just inside and just outside the range that
\* get_closed_issues searches.
Ages(max_age) ==
    {0, max_age, max_age + 1,
     max_age + extra_days_back, max_age + extra_days_back + 1}

ArchiveIssues(max_age) ==
    [state : {"available", "claimed"}, age : {0}, archived : {FALSE}]
    \cup [state : {"closed"}, age : Ages(max_age), archived : BOOLEAN]

\* get_closed_issues: gh issue list --state closed --search closed:>=since.
get_closed_issues(issues, days_back) ==
    {i \in DOMAIN issues :
        issues[i].state = "closed" /\ issues[i].age <= days_back}

\* archive_old_issues: the issues the loop appends to issues_to_archive.
issues_to_archive(issues, max_age) ==
    {i \in get_closed_issues(issues, max_age + extra_days_back) :
        ~issues[i].archived /\ issues[i].age > max_age}

InitArchive ==
    /\ RemoteOff
    /\ LocalOff
    /\ MatchOff
    /\ HealthOff
    /\ UninstallOff
    /\ ClassifierOff
    /\ \E m \in MaxAges :
       \E is \in [1..MaxIssues -> ArchiveIssues(m)] :
          archiver = [issues |-> is, start |-> is, max_age |-> m,
                      pc |-> "start"]

\* main, run as a script without --dry-run: the token check evaluates
\* os.environ.get.
ArchiveMain ==
    /\ UNCHANGED archiveFrame
    /\ archiver.pc = "start"
    /\ archiver' =
          IF OsNameError
          THEN [archiver EXCEPT !.pc = "main_raised"]
          ELSE [archiver EXCEPT !.pc = "archive"]

\* archive_old_issues(max_age_days): get_closed_issues calls run_gh_command,
\* which evaluates os.environ.copy() inside a try that catches only
\* CalledProcessError and FileNotFoundError.
archive_old_issues ==
    /\ UNCHANGED archiveFrame
    /\ archiver.pc \in {"start", "archive"}
    /\ archiver' =
          IF OsNameError
          THEN [archiver EXCEPT !.pc = "raised"]
          ELSE [archiver EXCEPT
                   !.issues = [i \in DOMAIN @ |->
                       IF i \in issues_to_archive(@, archiver.max_age)
                       THEN [@[i] EXCEPT !.archived = TRUE] ELSE @[i]],
                   !.pc = "done"]

NextArchive ==
    \/ ArchiveMain
    \/ archive_old_issues

(***************************************************************************)
(* The specifications.                                                     *)
(***************************************************************************)
SpecRemote == InitRemote /\ [][NextRemote]_vars

SpecSweep == InitSweep /\ [][NextRemote]_vars

SpecLocal == InitLocal /\ [][NextLocal]_vars

SpecDryRun == InitDryRun /\ [][NextRemote]_vars

SpecMatch == InitMatch /\ [][NextMatch]_vars

SpecHealth == InitHealth /\ [][NextHealth]_vars

SpecUninstall == InitUninstall /\ [][NextUninstall]_vars

SpecClassify == InitClassify /\ [][NextClassify]_vars

SpecArchive == InitArchive /\ [][NextArchive]_vars


(***************************************************************************)
(* The claims.                                                             *)
(***************************************************************************)
Holders(t) == {a \in Agents : held[a] = t}

\* No sweep has released anything and no command has failed.
Undisturbed ==
    /\ fails = 0
    /\ spc = "idle"
    /\ \A t \in Tasks : \A i \in DOMAIN comments[t] : comments[t][i].kind # "released"

\* C1: at-most-one-claim.  In every reachable state every task is held by at
\* most one agent (an agent that was told "claimed" and has not been
\* reclaimed since).
C1_AtMostOneClaim == \A t \in Tasks : Cardinality(Holders(t)) <= 1

\* C2: atomic claim under race.  When the pool holds exactly one open task
\* and all claim commands, none of them asking for the closed issue, have
\* ended, with no failed command and no sweep release, exactly one of them
\* reported claimed and the task is claimed.
C2_ExactlyOneSuccess ==
    (/\ ~issueOpen[2]
     /\ Undisturbed
     /\ \A a \in Agents : pc[a] = "done" /\ result[a].message # "is not open")
    => /\ Cardinality({a \in Agents : result[a].status = "claimed"}) = 1
       /\ Assigned(1)
       /\ inProgress[1]

\* C3: a claim updated within the timeout is never reclaimed.  Whenever a
\* step removes an assignee from a task, the task's most recent activity
\* marker at that moment is older than the timeout (or there is none); here
\* already for the sweep runs none of whose gh commands failed.
C3_ActiveNeverReclaimed ==
    [][\A t \in Tasks :
          (/\ assignees'[t] # assignees[t]
           /\ assignees'[t] \subseteq assignees[t]
           /\ ~sFailed)
          => ActuallyStale(t)]_vars

Available(t) ==
    /\ Unassigned(t)
    /\ ~inProgress[t]
    /\ \E i \in DOMAIN get_available_tasks : get_available_tasks[i].id = t

C5_ReclaimedIsAbandoned ==
    \A i \in DOMAIN cleaned :
        (cleaned[i].agent_id # NoAgent /\ fails = 0) =>
            LET cs == comments[cleaned[i].issue_number]
            IN \A j \in DOMAIN cs :
                  (cs[j].kind = "claim" /\ cs[j].agent = cleaned[i].agent_id)
                  => cs[j].status = "abandoned"

\* C6: mandatory verification.  No claim command reports claimed while a
\* different agent holds an active claim on the same task.
C6_VoidWhenOtherClaimant ==
    [][\A a \in Agents :
          (result'[a].status = "claimed" /\ result[a].status # "claimed")
          => \A b \in Agents \ {a} : held[b] # target[a]]_vars

\* C7: resource-lock disjointness on the local backend.  The files_locked
\* sets of two distinct active_work entries are disjoint, and a claim that
\* is written never embeds a task whose files_locked meets the files_locked
\* of an entry that is active in the file.
C7_LocksDisjoint ==
    /\ [](\A k1 \in DOMAIN active_work : \A k2 \in DOMAIN active_work :
            k1 # k2 =>
              active_work[k1].files_locked \cap active_work[k2].files_locked = {})
    /\ [][\A p \in Procs :
            (lpc[p] = "loaded" /\ lpc'[p] = "unlock" /\ lresult'[p].status = "claimed")
            => \A k \in DOMAIN active_work :
                  \A i \in DOMAIN available_tasks :
                     available_tasks[i].id = lresult'[p].task_id
                     => available_tasks[i].files_locked
                            \cap active_work[k].files_locked = {}]_vars

\* A dev claim skipped task 2, whose files are locked by an active claim,
\* and took task 3 instead.
C7_Witness ==
    /\ Cardinality(DOMAIN active_work) = 2
    /\ \E i \in DOMAIN available_tasks :
          /\ available_tasks[i].id = 2
          /\ \E k \in DOMAIN active_work :
                available_tasks[i].files_locked \cap active_work[k].files_locked # {}
    /\ \E p \in Procs :
          /\ lrole[p] = "dev"
          /\ lresult[p].status = "claimed"
          /\ lresult[p].task_id = 3

\* C8: local-backend locking.  A process that has read the state document
\* and not yet returned holds the exclusive lock, the document it read is
\* still the document in the file until it writes, and a process that has
\* returned from claim_task (claimed, idle or the invalid-state-file error)
\* does not hold the lock.
C8_LockDiscipline ==
    \A p \in Procs :
        /\ lpc[p] \in {"locked", "loaded", "unlock"} => flock = p
        /\ lpc[p] = "loaded" =>
              lstate[p] = [available_tasks |-> available_tasks,
                           active_work |-> active_work,
                           active_agents |-> active_agents]
        /\ lpc[p] \in {"idle", "done"} => flock # p

\* A process has returned the invalid-state-file error and another process
\* has taken the lock after it.
C8_Witness ==
    \E p \in Procs : \E q \in Procs \ {p} :
        /\ lpc[p] = "done"
        /\ lresult[p].message = "Invalid state file"
        /\ flock = q

\* C9: no partially-written claim.  A claim command that failed, and whose
\* task no other command chose, leaves the task unassigned as it was.
C9_FailedClaimLeavesNothing ==
    \A a \in Agents :
        (/\ pc[a] = "done"
         /\ result[a].status = "ERROR"
         /\ target[a] # NoTask
         /\ \A b \in Agents \ {a} : target[b] # target[a])
        => login[a] \notin assignees[target[a]]

\* C10: bounded conflict retry.  A claim command that finds its chosen task
\* claimed by another agent never reports that as a hard error.
C10_ConflictIsNotAnError ==
    \A a \in Agents :
        ~(result[a].status = "ERROR" /\ result[a].message = "is already assigned")

\* C11: fresh agent_id.  A claim that is written never uses an agent_id that
\* is already the key of an active_work entry of the file.
C11_FreshAgentId ==
    [][\A p \in Procs :
          (lpc[p] = "loaded" /\ lpc'[p] = "unlock" /\ lresult'[p].status = "claimed")
          => lresult'[p].agent_id \notin DOMAIN active_work]_vars

\* C12: task state exclusivity on the local backend.  Every task of the pool
\* occurs exactly once in available_tasks and active_work together.
C12_TaskInExactlyOne ==
    \A id \in LocalTaskIds :
        Cardinality({i \in DOMAIN available_tasks : available_tasks[i].id = id})
        + Cardinality({k \in DOMAIN active_work : active_work[k].task.id = id}) = 1

\* C13: every claim command that has ended has printed exactly one result
\* object with a status, and its exit code is 0 exactly when the status is
\* claimed or idle.
C13_OneResultAndExitCode ==
    \A p \in Procs :
        lpc[p] = "done" =>
            /\ Len(Stdout(lresult[p])) = 1
            /\ \A i \in DOMAIN Stdout(lresult[p]) :
                  /\ Stdout(lresult[p])[i].status \in {"claimed", "IDLE", "ERROR"}
                  /\ ExitCode(lresult[p]) = 0
                        <=> Stdout(lresult[p])[i].status \in {"claimed", "IDLE"}

\* C18: round-trip persistence on the local backend.  When a claim has
\* rewritten the state document, every claim record that was in the file is
\* still there unchanged, every task other than the claimed one is still in
\* available_tasks unchanged, and the new active_work entry embeds the
\* claimed task exactly as it was in available_tasks.
C18_ClaimKeepsOtherRecords ==
    [][\A p \in Procs :
          (lpc[p] = "loaded" /\ lpc'[p] = "unlock" /\ lresult'[p].status = "claimed")
          => /\ \A k \in DOMAIN active_work :
                   k \in DOMAIN active_work' /\ active_work'[k] = active_work[k]
             /\ \A i \in DOMAIN available_tasks :
                   available_tasks[i].id # lresult'[p].task_id
                   => \E j \in DOMAIN available_tasks' :
                         available_tasks'[j] = available_tasks[i]
             /\ \E i \in DOMAIN available_tasks :
                   /\ available_tasks[i].id = lresult'[p].task_id
                   /\ active_work'[lresult'[p].agent_id].task = available_tasks[i]]_vars

\* C19: cleanup-stale --dry-run makes no changes.  No step of a sweep command
\* that was started with --dry-run changes the assignees, the labels or the
\* comments of any issue (here already when no gh command has failed).
C19_DryRunChangesNothing ==
    [][(dry_run /\ sweepVars' # sweepVars /\ fails' = 0)
       => UNCHANGED <<assignees, inProgress, comments>>]_vars

C15_SkillMatchDominates ==
    \A i \in DOMAIN matcher.runs :
        matcher.tasks \in {<<TaskA, TaskB>>, <<TaskB, TaskA>>} =>
            /\ matcher.role = "security" => matcher.runs[i].result = TaskB.id
            /\ matcher.role = "dev" => matcher.runs[i].result = TaskA.id

\* The security role was given Task A before Task B and got Task B.
C15_Witness ==
    /\ matcher.tasks = <<TaskA, TaskB>>
    /\ matcher.role = "security"
    /\ Len(matcher.runs) > 0
    /\ matcher.runs[1].result = TaskB.id
    /\ matcher.runs[1].scores = <<45, 135>>

C17_EqualWeights ==
    LET signals == << health.available > 0,
                      health.active - health.stale > 0,
                      health.active = 0 \/ 10 * health.stale < 3 * health.active,
                      health.completions > 0 \/ health.active > 0 >>
    IN /\ health.status # NotComputed => health.status = 25 * CountTrue(signals)
       /\ health.summary # NotComputed => health.summary = 25 * CountTrue(signals)

\* C20: uninstall preserves user files.  After remove_items and
\* cleanup_empty_dirs without --dry-run, every item find_conductor_files
\* returned is gone, CLAUDE.md has no conductor section, every file that is
\* neither an item nor inside one still exists, and CLAUDE.md holds exactly
\* what it held outside the conductor section (here already for the files
\* whose conductor section does not touch a newline, so that removing it
\* joins no two runs of newlines).
C20_UninstallKeepsUserFiles ==
    LET items == find_conductor_files(uninstaller.start.paths)
        c == uninstaller.start.claude
        HasSection(t) ==
            \E i \in DOMAIN t : \E j \in DOMAIN t : i < j /\ t[i] = "S" /\ t[j] = "E"
        SeamFree ==
            \A i \in DOMAIN c :
                /\ (c[i] = "S" /\ i > 1) => c[i - 1] # "n"
                /\ (c[i] = "E" /\ i < Len(c)) => c[i + 1] # "n"
    IN (uninstaller.pc = "done" /\ ~uninstaller.dry_run) =>
          /\ \A i \in DOMAIN items : items[i] \notin uninstaller.paths
          /\ HasSection(c) => ~HasSection(uninstaller.claude)
          /\ \A q \in uninstaller.start.paths \cap ProjectFiles :
                (\A i \in DOMAIN items : q # items[i] /\ ~IsUnder(q, items[i]))
                => q \in uninstaller.paths
          /\ (claude_md \in uninstaller.start.paths /\ HasSection(c) /\ SeamFree)
                => uninstaller.claude = RemoveSections(c)

\* C21: an uninstall with dry_run set removes nothing: after remove_items and
\* after cleanup_empty_dirs the files and directories of the project and the
\* content of CLAUDE.md are those the uninstaller started with.
C21_DryRunRemovesNothing ==
    uninstaller.dry_run =>
        /\ uninstaller.paths = uninstaller.start.paths
        /\ uninstaller.claude = uninstaller.start.claude

\* A dry run has finished on a project that holds conductor items, an empty
\* ISSUE_TEMPLATE directory and a CLAUDE.md with a conductor section.
C21_Witness ==
    /\ uninstaller.dry_run
    /\ uninstaller.pc = "done"
    /\ Len(uninstaller.items) >= 2
    /\ template_dir \in uninstaller.start.paths
    /\ Children(uninstaller.start.paths, template_dir) = {}
    /\ find_claude_md_section(uninstaller.start.paths, uninstaller.start.claude)

\* C22, as stated: check_issue_staleness classifies the claim as stale if and
\* only if the most recent claim or heartbeat comment of the task is more
\* than the timeout old, or the task has no such comment at all.
C22_StaleIffLastActivityOld ==
    LET l == classifier.log
        times == {l[i].time : i \in {j \in DOMAIN l :
                                        l[j].kind \in {"claim", "heartbeat"}}}
    IN classifier.sweep # NoVerdict =>
          (classifier.sweep = "stale" <=>
              (times = {} \/ \A t \in times : classifier.now - t > Timeout))

\* C22, amended: check_issue_staleness classifies the claim as stale if and
\* only if the most recent claim, heartbeat or progress comment among the
\* last 10 comments of the task is strictly more than the timeout old, or
\* there is no such comment among them; the comments without marker among
\* those 10 do not change the verdict.
C22_StaleIffWindowActivityOld ==
    LET l == classifier.log
        window == {i \in DOMAIN l : i > Len(l) - CommentWindow}
        times == {l[i].time : i \in {j \in window :
                      l[j].kind \in {"claim", "heartbeat", "progress"}}}
        markers == SelectSeq(LastN(l, CommentWindow),
                             LAMBDA c : c.kind # "other")
    IN classifier.sweep # NoVerdict =>
          /\ classifier.sweep = "stale" <=>
                (times = {} \/ \A t \in times : classifier.now - t > Timeout)
          /\ classifier.sweep =
                Verdict(check_issue_staleness(markers, classifier.now).stale)

\* The sweep has classified a task of more than 10 comments as not stale:
\* its most recent marker is among the last 10 comments, followed by
\* comments without marker, and is exactly the timeout old.
C22_Witness ==
    LET l == classifier.log
    IN /\ classifier.sweep = "live"
       /\ Len(l) > CommentWindow
       /\ l[Len(l)].kind = "other"
       /\ \E i \in DOMAIN l :
             /\ i > Len(l) - CommentWindow
             /\ l[i].kind \in {"claim", "heartbeat"}
             /\ classifier.now - l[i].time = Timeout
             /\ \A j \in DOMAIN l : j > i => l[j].kind = "other"

\* C30: the liveness classifiers agree: for the same comment log and the
\* same clock, health-check.py, update-status.py and generate-summary.py
\* count the claim as stale exactly when check_issue_staleness of
\* cleanup-stale.py, with its default timeout, classifies it as stale.
C30_ClassifiersAgree ==
    /\ classifier.check # NoVerdict =>
          (classifier.sweep # NoVerdict => classifier.check = classifier.sweep)
    /\ classifier.status # NoVerdict =>
          (classifier.sweep # NoVerdict => classifier.status = classifier.sweep)
    /\ classifier.summary # NoVerdict =>
          (classifier.sweep # NoVerdict => classifier.summary = classifier.sweep)

\* C23: when a non-dry-run archive run has ended, every closed task that was
\* closed more than max-age days before and was not archived is archived,
\* however long ago it was closed; no task closed more recently is archived
\* by the run, and no open task is changed.
C23_ArchivesEveryOldClosedTask ==
    archiver.pc \in {"main_raised", "raised", "done"} =>
        \A i \in DOMAIN archiver.issues :
            LET before == archiver.start[i]
                after == archiver.issues[i]
            IN /\ (before.state = "closed" /\ before.age > archiver.max_age)
                     => after.archived
               /\ (before.state = "closed" /\ before.age <= archiver.max_age)
                     => after = before
               /\ before.state # "closed" => after = before

\* C24: a malformed record is skipped, not fatal.  On the local backend: when
\* the state document holds a record that cannot be parsed, a finished claim
\* has not aborted with an ERROR, and it has claimed a task whenever one of
\* the remaining tasks suits the role and conflicts with no claim.
C24_MalformedRecordIsSkipped ==
    \A p \in Procs :
        (lpc[p] = "done" /\ fileStatus = "invalid") =>
            /\ lresult[p].status # "ERROR"
            /\ FindLocalTask([available_tasks |-> available_tasks,
                              active_work |-> active_work,
                              active_agents |-> active_agents], lrole[p]) # 0
                  => lresult[p].status = "claimed"

\* C25: the in-progress label mirrors claimed status.  In every state in
\* which no claim command and no sweep run is under way, an open task carries
\* the in-progress label if and only if it has an assignee (here already for
\* the histories in which no gh command has failed).
C25_LabelMirrorsAssignment ==
    (/\ fails = 0
     /\ spc \in {"idle", "done"}
     /\ \A a \in Agents : pc[a] \in {"idle", "done"})
    => \A t \in Tasks : issueOpen[t] => (inProgress[t] <=> Assigned(t))

\* C27: a sweep cannot undo a claim in progress.  No step removes an
\* assignee from a task while a claim command is between its assignment
\* write and its end on that task, and a claim command that reports claimed
\* leaves its task assigned (here already for the histories in which no gh
\* command fails).
C27_SweepSparesClaimInProgress ==
    [][fails' = 0 =>
          /\ \A t \in Tasks :
                (assignees'[t] # assignees[t] /\ assignees'[t] \subseteq assignees[t])
                => \A a \in Agents :
                      ~(target[a] = t /\ pc[a] \in {"comment", "label"})
          /\ \A a \in Agents :
                (result'[a].status = "claimed" /\ result[a].status # "claimed")
                => assignees'[target[a]] # {}]_vars

\* C28: a failed store read never causes a reclaim.  When the sweep's read
\* of an issue's comments fails, the sweep does not go on to remove the
\* issue's assignees or its in-progress label.
C28_FailedReadSparesTask ==
    [][(spc = "check" /\ fails' > fails)
          => spc' \notin {"unassign", "unlabel"}]_vars

\* C26: stable tie-breaking.  When several tasks of the list get the same
\* highest score for the role, find_suitable_task returns the one that
\* comes first in the list.
C26_FirstOfTheBestWins ==
    \A r \in DOMAIN matcher.runs :
        LET tasks == matcher.tasks
            best == {i \in DOMAIN tasks :
                       \A j \in DOMAIN tasks :
                          Score(tasks[i], matcher.role) >= Score(tasks[j], matcher.role)}
        IN tasks # <<>> =>
              \E i \in best :
                  /\ \A j \in best : i <= j
                  /\ matcher.runs[r].result = tasks[i].id

\* The matcher was called for role dev on Task C followed by Task A, which
\* both score 85, and returned Task C.
C26_Witness ==
    /\ matcher.tasks = <<TaskC, TaskA>>
    /\ matcher.role = "dev"
    /\ Len(matcher.runs) > 0
    /\ matcher.runs[1].scores = <<85, 85>>
    /\ matcher.runs[1].result = TaskC.id

\* A task the role has no skill for: it requires skills, none of them is the
\* role or in the role's affinity set, and it is not a bootstrap task.
NoSkillFor(task, role) ==
    /\ task.required_skills # <<>>
    /\ role \notin Range(task.required_skills)
    /\ role \in DOMAIN role_affinities =>
          Range(role_affinities[role]) \cap Range(task.required_skills) = {}
    /\ task.title \cap {"init", "initialization", "discovery"} = {}

\* C29: the matcher respects skill requirements.  find_suitable_task never
\* returns a task the role has no skill for, and it returns no task when
\* the list is not empty and holds only such tasks.
C29_MatcherRespectsSkills ==
    \A r \in DOMAIN matcher.runs :
        /\ \A i \in DOMAIN matcher.tasks :
              matcher.runs[r].result = matcher.tasks[i].id
                 => ~NoSkillFor(matcher.tasks[i], matcher.role)
        /\ (/\ matcher.tasks # <<>>
            /\ \A i \in DOMAIN matcher.tasks :
                  NoSkillFor(matcher.tasks[i], matcher.role))
              => matcher.runs[r].result = NoTask

====
